---- MODULE Spec2Model ----
(***************************************************************************)
(* LockBox AI web client: the odds feed and the pick analysis of the       *)
(* variants of App.jsx, as state machines over the React state, the refs   *)
(* and the HTTP requests in flight.                                        *)
(*                                                                         *)
(*   Spec000   src/unnamed/part_000        (no guard, sequential analysis)  *)
(*   Spec001   src/unnamed/part_001        (debounce, lock, AbortController)*)
(*   SpecAuth  src/frontend/srcv4/App.jsx  (session gate, Promise.all)      *)
(*   SpecSrcv4 src/srcv4/App.jsx           (odds feed with error banner)    *)
(*                                                                         *)
(* One step is one macrotask of the browser: a UI event handler with the   *)
(* re-render and the effects it causes, a timer callback up to its first   *)
(* await, or the continuation of an async function after the request it    *)
(* awaits has settled.                                                     *)
(***************************************************************************)
EXTENDS Naturals, Sequences, FiniteSets

\* Number of odds requests that may be outstanding at once.
MaxOddsReqs == 2
\* Number of analyzeGame invocations that may be outstanding at once.
MaxAnalyses == 2

\* Sport codes of the <select> (two of the five options; no code branches on
\* the value).
Sports == {"americanfootball_nfl", "basketball_nba"}

\* Games the backend can return: one with a spread line, one without.
GameA == [game |-> "A @ B", home_spread |-> "-3.5"]
GameC == [game |-> "C @ D", home_spread |-> "null"]
GameLists == {<< >>, <<GameA>>, <<GameA, GameC>>}

\* What the backend answers to GET /odds/{sport}.
\*   status: "ok" (2xx), "http" (non-2xx), "neterr" (fetch rejects)
\*   kind:   "games" (JSON with a games key), "nokey" (JSON without it),
\*           "malformed" (res.json() rejects), "none" (no body at all)
NoResp == [status |-> "none", kind |-> "none", games |-> << >>]
OddsResps ==
    {[status |-> "neterr", kind |-> "none", games |-> << >>]}
    \cup {[status |-> "http", kind |-> k, games |-> << >>] : k \in {"nokey", "malformed"}}
    \cup {[status |-> "ok", kind |-> k, games |-> << >>] : k \in {"nokey", "malformed"}}
    \cup {[status |-> "ok", kind |-> "games", games |-> gl] : gl \in GameLists}

\* What the backend answers to POST /analyze: a pick, {error: "..."} for a
\* market it does not offer, or a failure (fetch or res.json() rejects).
AnResps == {"pick", "nomarket", "fail"}

VARIABLES
    mounted,      \* the component is mounted and its mount effects have run
    sport,        \* useState: selected sport code
    games,        \* useState: the game list
    loading,      \* useState: odds loading flag
    error,        \* useState: error banner ("" or null when none)
    activePick,   \* useState: the single pick record
    oreq,         \* odds requests in flight, by slot
    areq,         \* analyzeGame invocations in flight, by slot
    lastEvent,    \* the event handled by the last step, with its payload
    \* part_001
    inFlight,     \* useRef: lock
    debounceTimer,\* useRef: the armed timer, or "none"
    controllerRef,\* useRef: slot of the request the AbortController belongs to, 0 when null
    lastUpdated,  \* useState: "null" or the time string of the last successful refresh
    trigger,      \* a trigger of the feed has not yet been followed by a request
    \* frontend/srcv4/App.jsx
    session,      \* useState: "null" or a session object
    authLoaded,   \* useState
    authPending   \* supabase.auth calls in flight: subset of {"getSession", "signOut"}

vars == <<mounted, sport, games, loading, error, activePick, oreq, areq, lastEvent,
          inFlight, debounceTimer, controllerRef, lastUpdated, trigger,
          session, authLoaded, authPending>>

vars001 == <<inFlight, debounceTimer, controllerRef, lastUpdated, trigger>>
varsAuth == <<session, authLoaded, authPending>>

OSlots == 1..MaxOddsReqs
ASlots == 1..MaxAnalyses

FreeReq == [st |-> "free", sport |-> "none", latest |-> FALSE, aborted |-> FALSE]
FreeAn == [st |-> "free", game |-> "none", home_spread |-> "null",
           issued |-> {}, ml |-> "none", sp |-> "none"]

NullPick == [game |-> "null", loading |-> FALSE, error |-> FALSE,
             moneyline |-> "undef", spread |-> "undef"]

Event(type) == [type |-> type, resp |-> NoResp, out |-> "none"]
OddsEvent(r) == [type |-> "odds_settled", resp |-> r, out |-> "none"]
AnEvent(type, out) == [type |-> type, resp |-> NoResp, out |-> out]

HasFree(f) == \E s \in DOMAIN f : f[s].st = "free"
FreeSlot(f) == CHOOSE s \in DOMAIN f :
                  /\ f[s].st = "free"
                  /\ \A t \in DOMAIN f : t < s => f[t].st # "free"

\* fetch(`${API_BASE}/odds/${sport}`): a new request for sp is outstanding; it
\* is the latest issued, every other outstanding one no longer is.
IssueOdds(reqs, sp) ==
    [s \in DOMAIN reqs |->
        IF s = FreeSlot(reqs)
        THEN [st |-> "open", sport |-> sp, latest |-> TRUE, aborted |-> FALSE]
        ELSE IF reqs[s].st = "free" THEN reqs[s]
        ELSE [reqs[s] EXCEPT !.latest = FALSE]]

\* The request of slot s has settled and its continuation has run.
CloseOdds(reqs, s) == [reqs EXCEPT ![s] = FreeReq]

\* The state after the first render, before any effect has run: sport0 and
\* error0 are the useState initial values of the variant.
InitWith(sport0, error0) ==
    /\ mounted = FALSE
    /\ sport = sport0
    /\ games = << >>
    /\ loading = FALSE
    /\ error = error0
    /\ activePick = NullPick
    /\ oreq = [s \in OSlots |-> FreeReq]
    /\ areq = [s \in ASlots |-> FreeAn]
    /\ lastEvent = Event("init")
    /\ inFlight = FALSE
    /\ debounceTimer = "none"
    /\ controllerRef = 0
    /\ lastUpdated = "null"
    /\ trigger = FALSE
    /\ session = "null"
    /\ authLoaded = FALSE
    /\ authPending = {}

Init == InitWith("americanfootball_nfl", "")

-----------------------------------------------------------------------------
(* part_000 *)

\* part_000 fetchOdds, lines 13-16: up to the await of fetch.
FetchOdds000(sp) ==
    /\ HasFree(oreq)
    /\ loading' = TRUE
    /\ oreq' = IssueOdds(oreq, sp)

\* part_000 fetchOdds, lines 16-21: the game list after the request settled.
\* res.ok is not looked at; a rejected fetch or res.json() empties the list.
GamesAfter000(r, prev) ==
    IF r.status = "neterr" \/ r.kind = "malformed" THEN << >>
    ELSE IF r.kind = "games" THEN r.games
    ELSE << >>

\* useEffect(() => { fetchOdds(); }, [sport]) at mount.
Mount000 ==
    /\ ~mounted
    /\ mounted' = TRUE
    /\ FetchOdds000(sport)
    /\ lastEvent' = Event("mount")
    /\ UNCHANGED <<sport, games, error, activePick, areq, vars001, varsAuth>>

\* <select onChange>: setSport, then the sport effect runs fetchOdds of the
\* new render.
SetSport000(sp) ==
    /\ mounted
    /\ sp # sport
    /\ sport' = sp
    /\ FetchOdds000(sp)
    /\ lastEvent' = Event("sport")
    /\ UNCHANGED <<mounted, games, error, activePick, areq, vars001, varsAuth>>

\* <button onClick={fetchOdds} disabled={loading}>
Refresh000 ==
    /\ mounted
    /\ ~loading
    /\ FetchOdds000(sport)
    /\ lastEvent' = Event("refresh")
    /\ UNCHANGED <<mounted, sport, games, error, activePick, areq, vars001, varsAuth>>

\* The continuation of fetchOdds after its request settled with r.
OddsSettle000(s, r) ==
    /\ oreq[s].st = "open"
    /\ games' = GamesAfter000(r, games)
    /\ loading' = FALSE
    /\ oreq' = CloseOdds(oreq, s)
    /\ lastEvent' = OddsEvent(r)
    /\ UNCHANGED <<mounted, sport, error, activePick, areq, vars001, varsAuth>>

\* setActivePick({ game: g.game, loading: true })
PickPending(g) == [game |-> g, loading |-> TRUE, error |-> FALSE,
                   moneyline |-> "undef", spread |-> "undef"]

\* setActivePick({ game: g.game, loading: false, moneyline: mlData, spread: spData })
PickReady(g, mlData, spData) == [game |-> g, loading |-> FALSE, error |-> FALSE,
                                 moneyline |-> mlData, spread |-> spData]

\* setActivePick({ game: g.game, error: true, loading: false }); the variants
\* that leave loading out leave it undefined, which the guards read as false.
PickError(g) == [game |-> g, loading |-> FALSE, error |-> TRUE,
                 moneyline |-> "undef", spread |-> "undef"]

\* disabled={isActive && activePick.loading} of the card of game g
AnalyzeDisabled(pick, g) == pick.game = g /\ pick.loading

\* g.home_spread !== null && g.home_spread !== undefined
HasSpread(home_spread) == home_spread # "null"

\* part_000 analyzeGame, lines 27-42: the pick record is set to pending and
\* the moneyline request is sent.
Analyze000(i) ==
    /\ mounted
    /\ i \in 1..Len(games)
    /\ ~AnalyzeDisabled(activePick, games[i].game)
    /\ HasFree(areq)
    /\ activePick' = PickPending(games[i].game)
    /\ areq' = [areq EXCEPT ![FreeSlot(areq)] =
                   [st |-> "ml", game |-> games[i].game,
                    home_spread |-> games[i].home_spread,
                    issued |-> {"moneyline"}, ml |-> "pending", sp |-> "none"]]
    /\ lastEvent' = Event("analyze")
    /\ UNCHANGED <<mounted, sport, games, loading, error, oreq, vars001, varsAuth>>

\* part_000 analyzeGame, lines 42-69, after the moneyline request settled:
\* a failure goes to the catch; otherwise the spread request is sent when the
\* game has a spread, and the record is completed at once when it has none.
MlSettle000(s, r) ==
    /\ areq[s].st = "ml"
    /\ IF r = "fail"
       THEN /\ activePick' = PickError(areq[s].game)
            /\ areq' = [areq EXCEPT ![s] = FreeAn]
       ELSE IF HasSpread(areq[s].home_spread)
       THEN /\ activePick' = activePick
            /\ areq' = [areq EXCEPT ![s].st = "sp", ![s].ml = r, ![s].sp = "pending",
                                    ![s].issued = @ \cup {"spread"}]
       ELSE /\ activePick' = PickReady(areq[s].game, r, "nomarket")
            /\ areq' = [areq EXCEPT ![s] = FreeAn]
    /\ lastEvent' = AnEvent("ml_settled", r)
    /\ UNCHANGED <<mounted, sport, games, loading, error, oreq, vars001, varsAuth>>

\* part_000 analyzeGame, lines 57-69, after the spread request settled.
SpSettle000(s, r) ==
    /\ areq[s].st = "sp"
    /\ activePick' = IF r = "fail" THEN PickError(areq[s].game)
                     ELSE PickReady(areq[s].game, areq[s].ml, r)
    /\ areq' = [areq EXCEPT ![s] = FreeAn]
    /\ lastEvent' = AnEvent("sp_settled", r)
    /\ UNCHANGED <<mounted, sport, games, loading, error, oreq, vars001, varsAuth>>

Next000 ==
    \/ Mount000
    \/ \E sp \in Sports : SetSport000(sp)
    \/ Refresh000
    \/ \E s \in OSlots, r \in OddsResps : OddsSettle000(s, r)
    \/ \E i \in 1..2 : Analyze000(i)
    \/ \E s \in ASlots, r \in AnResps : MlSettle000(s, r)
    \/ \E s \in ASlots, r \in AnResps : SpSettle000(s, r)

Spec000 == Init /\ [][Next000]_vars

-----------------------------------------------------------------------------
(* srcv4/App.jsx *)

\* srcv4/App.jsx fetchOdds, lines 15-19: up to the await of fetch.
FetchOddsS4(sp) ==
    /\ HasFree(oreq)
    /\ loading' = TRUE
    /\ error' = ""
    /\ oreq' = IssueOdds(oreq, sp)

\* The request threw: fetch rejected, !res.ok, or res.json() rejected.
ThrowsS4(r) == r.status # "ok" \/ r.kind = "malformed"

\* srcv4/App.jsx fetchOdds, lines 19-29: the game list after the request settled.
GamesAfterS4(r, prev) ==
    IF ~ThrowsS4(r) /\ r.kind = "games" THEN r.games ELSE prev

\* srcv4/App.jsx fetchOdds, lines 22-29: the error banner after the request settled.
ErrorAfterS4(r, prev) ==
    IF ThrowsS4(r) THEN "Failed to load odds. Try again."
    ELSE IF r.kind = "games" THEN prev
    ELSE "No games returned from backend."

MountS4 ==
    /\ ~mounted
    /\ mounted' = TRUE
    /\ FetchOddsS4(sport)
    /\ lastEvent' = Event("mount")
    /\ UNCHANGED <<sport, games, activePick, areq, vars001, varsAuth>>

SetSportS4(sp) ==
    /\ mounted
    /\ sp # sport
    /\ sport' = sp
    /\ FetchOddsS4(sp)
    /\ lastEvent' = Event("sport")
    /\ UNCHANGED <<mounted, games, activePick, areq, vars001, varsAuth>>

RefreshS4 ==
    /\ mounted
    /\ ~loading
    /\ FetchOddsS4(sport)
    /\ lastEvent' = Event("refresh")
    /\ UNCHANGED <<mounted, sport, games, activePick, areq, vars001, varsAuth>>

OddsSettleS4(s, r) ==
    /\ oreq[s].st = "open"
    /\ games' = GamesAfterS4(r, games)
    /\ error' = ErrorAfterS4(r, error)
    /\ loading' = FALSE
    /\ oreq' = CloseOdds(oreq, s)
    /\ lastEvent' = OddsEvent(r)
    /\ UNCHANGED <<mounted, sport, activePick, areq, vars001, varsAuth>>

NextS4 ==
    \/ MountS4
    \/ \E sp \in Sports : SetSportS4(sp)
    \/ RefreshS4
    \/ \E s \in OSlots, r \in OddsResps : OddsSettleS4(s, r)

SpecSrcv4 == Init /\ [][NextS4]_vars

-----------------------------------------------------------------------------
(* part_001 *)

\* Bodies of GET /odds?sport=NFL: the game array itself, each game with an id.
Game1 == [id |-> "g1", analysis |-> "undef"]
Game2 == [id |-> "g2", analysis |-> "undef"]
GameLists001 == {<< >>, <<Game1>>, <<Game1, Game2>>}
OddsResps001 ==
    {[status |-> "neterr", kind |-> "none", games |-> << >>]}
    \cup {[status |-> "http", kind |-> k, games |-> << >>] : k \in {"nokey", "malformed"}}
    \cup {[status |-> "ok", kind |-> "malformed", games |-> << >>]}
    \cup {[status |-> "ok", kind |-> "games", games |-> gl] : gl \in GameLists001}

\* new Date().toLocaleTimeString(): a stamp that differs from the one shown.
Now(prev) == IF prev = "t0" THEN "t1" ELSE "t0"

\* controllerRef.current.abort(): the request the controller belongs to, when
\* it is still outstanding, will reject with AbortError.
Abort(reqs, c) ==
    IF c # 0 /\ reqs[c].st = "open" THEN [reqs EXCEPT ![c].aborted = TRUE] ELSE reqs

\* part_001 fetchOdds, lines 20-24 and 48: the lock and the timer after a call.
LockAfterFetch001(lock) == TRUE
TimerAfterFetch001(lock, timer) == IF lock THEN timer ELSE "armed"

\* part_001 fetchOdds, lines 34-35 and 39-40: the name of the error thrown in
\* the try block, "none" when nothing is thrown.
Thrown001(aborted, r) ==
    IF aborted THEN "AbortError"
    ELSE IF r.status = "neterr" THEN "TypeError"
    ELSE IF r.status # "ok" THEN "Error"
    ELSE IF r.kind = "malformed" THEN "SyntaxError"
    ELSE "none"

\* The catch block without the AbortError test of line 40.
ErrorAfter001_NoAbortTest(name, prev) ==
    IF name = "none" THEN prev ELSE "Failed to load odds. Try again."

\* part_001 fetchOdds, lines 39-43: the catch block.
ErrorAfter001(name, prev) ==
    IF name = "none" THEN prev
    ELSE IF name # "AbortError" THEN "Failed to load odds. Try again."
    ELSE prev

\* useEffect(() => { fetchOdds(); return cleanup; }, [sport]) at mount.
Mount001 ==
    /\ ~mounted
    /\ mounted' = TRUE
    /\ inFlight' = LockAfterFetch001(inFlight)
    /\ debounceTimer' = TimerAfterFetch001(inFlight, debounceTimer)
    /\ trigger' = TRUE
    /\ lastEvent' = Event("mount")
    /\ UNCHANGED <<sport, games, loading, error, activePick, oreq, areq,
                   controllerRef, lastUpdated, varsAuth>>

\* <button onClick={() => setSport("NFL")}>: the state already holds "NFL", so
\* nothing re-renders and the sport effect does not run.
SportButton001 ==
    /\ mounted
    /\ sport' = "NFL"
    /\ lastEvent' = Event("sport")
    /\ UNCHANGED <<mounted, games, loading, error, activePick, oreq, areq,
                   vars001, varsAuth>>

\* <button onClick={fetchOdds} disabled={loading}>
Refresh001 ==
    /\ mounted
    /\ ~loading
    /\ inFlight' = LockAfterFetch001(inFlight)
    /\ debounceTimer' = TimerAfterFetch001(inFlight, debounceTimer)
    /\ trigger' = TRUE
    /\ lastEvent' = Event("refresh")
    /\ UNCHANGED <<mounted, sport, games, loading, error, activePick, oreq, areq,
                   controllerRef, lastUpdated, varsAuth>>

\* React re-runs the sport effect (lines 54-60) of the mounted component: the
\* cleanup of the previous run, then fetchOdds again. React does so when a
\* dependency changes and, with the refs kept, on the remount of StrictMode
\* and of Fast Refresh.
EffectRerun001 ==
    /\ mounted
    /\ oreq' = Abort(oreq, controllerRef)
    /\ inFlight' = LockAfterFetch001(inFlight)
    /\ debounceTimer' = TimerAfterFetch001(inFlight, "none")
    /\ trigger' = TRUE
    /\ lastEvent' = Event("effect_rerun")
    /\ UNCHANGED <<mounted, sport, games, loading, error, activePick, areq,
                   controllerRef, lastUpdated, varsAuth>>

\* The debounce timer fires (lines 24-33): the previous controller is aborted,
\* a new one made, and the request sent.
TimerFire001 ==
    /\ debounceTimer = "armed"
    /\ HasFree(oreq)
    /\ debounceTimer' = "none"
    /\ controllerRef' = FreeSlot(oreq)
    /\ loading' = TRUE
    /\ error' = "null"
    /\ oreq' = IssueOdds(Abort(oreq, controllerRef), sport)
    /\ trigger' = FALSE
    /\ lastEvent' = Event("timer")
    /\ UNCHANGED <<mounted, sport, games, activePick, areq, inFlight,
                   lastUpdated, varsAuth>>

\* The continuation of the timer callback (lines 33-47) once its request has
\* settled: r is what the network answered, unless the request was aborted.
OddsDone001(s, r) ==
    /\ games' = IF Thrown001(oreq[s].aborted, r) = "none" THEN r.games ELSE games
    /\ lastUpdated' = IF Thrown001(oreq[s].aborted, r) = "none"
                      THEN Now(lastUpdated) ELSE lastUpdated
    /\ error' = ErrorAfter001(Thrown001(oreq[s].aborted, r), error)
    /\ loading' = FALSE
    /\ inFlight' = FALSE
    /\ oreq' = CloseOdds(oreq, s)
    /\ UNCHANGED <<mounted, sport, activePick, areq, debounceTimer, controllerRef,
                   trigger, varsAuth>>

OddsSettle001(s, r) ==
    /\ oreq[s].st = "open"
    /\ ~oreq[s].aborted
    /\ OddsDone001(s, r)
    /\ lastEvent' = OddsEvent(r)

AbortSettle001(s) ==
    /\ oreq[s].st = "open"
    /\ oreq[s].aborted
    /\ OddsDone001(s, NoResp)
    /\ lastEvent' = Event("odds_aborted")

\* part_001 analyzePick, lines 65-76: the request is sent.
AnalyzePick001(i) ==
    /\ mounted
    /\ ~loading
    /\ i \in 1..Len(games)
    /\ HasFree(areq)
    /\ areq' = [areq EXCEPT ![FreeSlot(areq)] =
                   [FreeAn EXCEPT !.st = "ml", !.game = games[i].id,
                                  !.issued = {"analyze"}, !.ml = "pending"]]
    /\ lastEvent' = Event("analyze")
    /\ UNCHANGED <<mounted, sport, games, loading, error, activePick, oreq,
                   vars001, varsAuth>>

\* The map without the id test of line 80.
Attach001_All(prev, id, data) ==
    [k \in DOMAIN prev |-> [prev[k] EXCEPT !.analysis = data]]

\* prev.map((g) => g.id === game.id ? { ...g, analysis: data } : g)
Attach001(prev, id, data) ==
    [k \in DOMAIN prev |->
        IF prev[k].id = id THEN [prev[k] EXCEPT !.analysis = data] ELSE prev[k]]

\* part_001 analyzePick, lines 77-88, after the request settled.
AnSettle001(s, r) ==
    /\ areq[s].st = "ml"
    /\ games' = IF r = "fail" THEN games ELSE Attach001(games, areq[s].game, r)
    /\ error' = IF r = "fail" THEN "Failed to analyze pick." ELSE error
    /\ areq' = [areq EXCEPT ![s] = FreeAn]
    /\ lastEvent' = AnEvent("an_settled", r)
    /\ UNCHANGED <<mounted, sport, loading, activePick, oreq, vars001, varsAuth>>

Next001 ==
    \/ Mount001
    \/ SportButton001
    \/ Refresh001
    \/ EffectRerun001
    \/ TimerFire001
    \/ \E s \in OSlots, r \in OddsResps001 : OddsSettle001(s, r)
    \/ \E s \in OSlots : AbortSettle001(s)
    \/ \E i \in 1..2 : AnalyzePick001(i)
    \/ \E s \in ASlots, r \in AnResps : AnSettle001(s, r)

Init001 == InitWith("NFL", "null")

Spec001 == Init001 /\ [][Next001]_vars

\* Timers fire and requests settle.
Spec001Fair ==
    /\ Spec001
    /\ WF_vars(TimerFire001)
    /\ WF_vars(\E s \in OSlots, r \in OddsResps001 : OddsSettle001(s, r))
    /\ WF_vars(\E s \in OSlots : AbortSettle001(s))

-----------------------------------------------------------------------------
(* frontend/srcv4/App.jsx *)

\* Number of analyzeGame invocations of this variant that may be outstanding
\* at once.
MaxAnalysesAuth == 1

\* Session objects the identity provider hands out; a refreshed token is a new
\* object.
Sessions == {"s1", "s2"}

\* The main UI, with the select, the buttons and the cards, is rendered.
MainUI == mounted /\ authLoaded /\ session # "null"

\* The fetch-odds effect without the session test of line 73.
OddsEffectAuth_NoSessionTest ==
    IF /\ <<sport', authLoaded', session'>> # <<sport, authLoaded, session>>
       /\ authLoaded'
    THEN /\ HasFree(oreq)
         /\ loading' = TRUE
         /\ oreq' = IssueOdds(oreq, sport')
    ELSE UNCHANGED <<loading, oreq>>

\* The fetch-odds effect (lines 72-87) after a render: it runs when one of
\* [sport, authLoaded, session] changed, returns at once without a loaded
\* session, and sends the request otherwise.
OddsEffectAuth ==
    IF /\ <<sport', authLoaded', session'>> # <<sport, authLoaded, session>>
       /\ authLoaded'
       /\ session' # "null"
    THEN /\ HasFree(oreq)
         /\ loading' = TRUE
         /\ oreq' = IssueOdds(oreq, sport')
    ELSE UNCHANGED <<loading, oreq>>

\* Mount: the auth effect (lines 44-69) calls getSession and subscribes; the
\* fetch-odds effect returns at line 73.
MountAuth ==
    /\ ~mounted
    /\ mounted' = TRUE
    /\ authPending' = authPending \cup {"getSession"}
    /\ lastEvent' = Event("mount")
    /\ UNCHANGED <<sport, games, loading, error, activePick, oreq, areq, vars001,
                   session, authLoaded>>

\* initAuth, lines 48-54, after getSession settled: res is the stored session,
\* "null" when there is none, "error" when the call rejected.
GetSessionSettle(res) ==
    /\ "getSession" \in authPending
    /\ authPending' = authPending \ {"getSession"}
    /\ session' = IF res = "error" THEN session ELSE res
    /\ authLoaded' = TRUE
    /\ sport' = sport
    /\ OddsEffectAuth
    /\ lastEvent' = Event("get_session")
    /\ UNCHANGED <<mounted, games, error, activePick, areq, vars001>>

\* The onAuthStateChange listener, lines 58-63.
AuthStateChange(sess) ==
    /\ mounted
    /\ session' = sess
    /\ authLoaded' = TRUE
    /\ sport' = sport
    /\ OddsEffectAuth
    /\ lastEvent' = Event("auth_event")
    /\ UNCHANGED <<mounted, games, error, activePick, areq, vars001, authPending>>

\* signOut, line 91: the Logout button calls supabase.auth.signOut().
SignOutClick ==
    /\ MainUI
    /\ "signOut" \notin authPending
    /\ authPending' = authPending \cup {"signOut"}
    /\ lastEvent' = Event("sign_out")
    /\ UNCHANGED <<mounted, sport, games, loading, error, activePick, oreq, areq,
                   vars001, session, authLoaded>>

\* signOut, line 92, after the call resolved.
SignOutSettle ==
    /\ "signOut" \in authPending
    /\ authPending' = authPending \ {"signOut"}
    /\ session' = "null"
    /\ authLoaded' = authLoaded
    /\ sport' = sport
    /\ OddsEffectAuth
    /\ lastEvent' = Event("signed_out")
    /\ UNCHANGED <<mounted, games, error, activePick, areq, vars001>>

\* <select onChange={(e) => setSport(e.target.value)}>
SetSportAuth(sp) ==
    /\ MainUI
    /\ sp # sport
    /\ sport' = sp
    /\ UNCHANGED <<session, authLoaded>>
    /\ OddsEffectAuth
    /\ lastEvent' = Event("sport")
    /\ UNCHANGED <<mounted, games, error, activePick, areq, vars001, authPending>>

\* <button onClick={() => setSport(sport)} disabled={loading}>: the state is
\* set to the value it holds.
RefreshAuth ==
    /\ MainUI
    /\ ~loading
    /\ sport' = sport
    /\ UNCHANGED <<session, authLoaded>>
    /\ OddsEffectAuth
    /\ lastEvent' = Event("refresh")
    /\ UNCHANGED <<mounted, games, error, activePick, areq, vars001, authPending>>

\* frontend/srcv4/App.jsx fetchOdds, lines 77-81: the game list after the
\* request settled; the catch only logs.
GamesAfterAuth(r, prev) ==
    IF r.status = "neterr" \/ r.kind = "malformed" THEN prev
    ELSE IF r.kind = "games" THEN r.games
    ELSE << >>

OddsSettleAuth(s, r) ==
    /\ oreq[s].st = "open"
    /\ games' = GamesAfterAuth(r, games)
    /\ loading' = FALSE
    /\ oreq' = CloseOdds(oreq, s)
    /\ lastEvent' = OddsEvent(r)
    /\ UNCHANGED <<mounted, sport, error, activePick, areq, vars001, varsAuth>>

\* analyzeGame, lines 96-116: the record is set to pending and both requests
\* are sent under Promise.all.
AnalyzeAuth(i) ==
    /\ MainUI
    /\ i \in 1..Len(games)
    /\ ~AnalyzeDisabled(activePick, games[i].game)
    /\ HasFree(areq)
    /\ Cardinality({s \in ASlots : areq[s].st # "free"}) < MaxAnalysesAuth
    /\ activePick' = PickPending(games[i].game)
    /\ areq' = [areq EXCEPT ![FreeSlot(areq)] =
                   [st |-> "par", game |-> games[i].game,
                    home_spread |-> games[i].home_spread,
                    issued |-> {"moneyline", "spread"},
                    ml |-> "pending", sp |-> "pending"]]
    /\ lastEvent' = Event("analyze")
    /\ UNCHANGED <<mounted, sport, games, loading, error, oreq, vars001, varsAuth>>

\* Promise.all([analyze("moneyline"), analyze("spread")]), lines 113-128, when
\* one of its two requests settles with r while the other is in state other:
\* the first failure rejects it and runs the catch, the second success
\* resolves it, and a request that settles after the rejection is dropped.
PickAfterAll(st, pick, g, r, other, mlData, spData) ==
    IF st # "par" THEN pick
    ELSE IF r = "fail" THEN PickError(g)
    ELSE IF other = "pending" THEN pick
    ELSE PickReady(g, mlData, spData)

StateAfterAll(st, r, other) ==
    IF other # "pending" THEN "free"
    ELSE IF st = "par" /\ r = "fail" THEN "rejected"
    ELSE st

MlSettleAuth(s, r) ==
    /\ areq[s].st \in {"par", "rejected"}
    /\ areq[s].ml = "pending"
    /\ activePick' = PickAfterAll(areq[s].st, activePick, areq[s].game, r,
                                  areq[s].sp, r, areq[s].sp)
    /\ areq' = [areq EXCEPT ![s] =
                   IF StateAfterAll(areq[s].st, r, areq[s].sp) = "free" THEN FreeAn
                   ELSE [@ EXCEPT !.ml = r,
                                  !.st = StateAfterAll(areq[s].st, r, areq[s].sp)]]
    /\ lastEvent' = AnEvent("ml_settled", r)
    /\ UNCHANGED <<mounted, sport, games, loading, error, oreq, vars001, varsAuth>>

SpSettleAuth(s, r) ==
    /\ areq[s].st \in {"par", "rejected"}
    /\ areq[s].sp = "pending"
    /\ activePick' = PickAfterAll(areq[s].st, activePick, areq[s].game, r,
                                  areq[s].ml, areq[s].ml, r)
    /\ areq' = [areq EXCEPT ![s] =
                   IF StateAfterAll(areq[s].st, r, areq[s].ml) = "free" THEN FreeAn
                   ELSE [@ EXCEPT !.sp = r,
                                  !.st = StateAfterAll(areq[s].st, r, areq[s].ml)]]
    /\ lastEvent' = AnEvent("sp_settled", r)
    /\ UNCHANGED <<mounted, sport, games, loading, error, oreq, vars001, varsAuth>>

NextAuth ==
    \/ MountAuth
    \/ \E res \in Sessions \cup {"null", "error"} : GetSessionSettle(res)
    \/ \E sess \in Sessions \cup {"null"} : AuthStateChange(sess)
    \/ SignOutClick
    \/ SignOutSettle
    \/ \E sp \in Sports : SetSportAuth(sp)
    \/ RefreshAuth
    \/ \E s \in OSlots, r \in OddsResps : OddsSettleAuth(s, r)
    \/ \E i \in 1..2 : AnalyzeAuth(i)
    \/ \E s \in ASlots, r \in AnResps : MlSettleAuth(s, r)
    \/ \E s \in ASlots, r \in AnResps : SpSettleAuth(s, r)

SpecAuth == Init /\ [][NextAuth]_vars

\* The session and the odds feed of the variant alone, without the analysis.
NextAuthFeed ==
    \/ MountAuth
    \/ \E res \in Sessions \cup {"null", "error"} : GetSessionSettle(res)
    \/ \E sess \in Sessions \cup {"null"} : AuthStateChange(sess)
    \/ SignOutClick
    \/ SignOutSettle
    \/ \E sp \in Sports : SetSportAuth(sp)
    \/ RefreshAuth
    \/ \E s \in OSlots, r \in OddsResps : OddsSettleAuth(s, r)

SpecAuthFeed == Init /\ [][NextAuthFeed]_vars

-----------------------------------------------------------------------------
(* Properties *)

\* The step settles the odds request of slot s.
OddsSettles(s) == oreq[s].st = "open" /\ oreq'[s].st = "free"

\* The step is a call of fetchOdds.
FetchCall == lastEvent'.type \in {"mount", "sport", "refresh"} /\ oreq' # oreq

\* The odds fetch failed: network error, non-2xx status or unparseable body.
Failed(r) == r.status \in {"neterr", "http"} \/ r.kind = "malformed"

\* C1 (part_000): a response of a request that is no longer the latest issued
\* leaves games unchanged, so only the later request's result is applied.
C1_StaleResponseIsNoOp ==
    [][\A s \in OSlots : (OddsSettles(s) /\ ~oreq[s].latest) => games' = games]_vars

\* C5 (srcv4/App.jsx): a call of fetchOdds issues exactly one request, for the
\* selected sport; a 2xx response with a parseable body replaces games by the
\* body's games array, or by the empty list when the key is absent, and sets
\* no error message.
C5_OneRequestAndGamesReplaced ==
    [][/\ FetchCall =>
            Cardinality({s \in OSlots : /\ oreq[s].st = "free"
                                        /\ oreq'[s].st = "open"
                                        /\ oreq'[s].sport = sport'}) = 1
       /\ \A s \in OSlots :
            (OddsSettles(s) /\ ~Failed(lastEvent'.resp)) =>
                /\ games' = IF lastEvent'.resp.kind = "games"
                            THEN lastEvent'.resp.games ELSE << >>
                /\ error' = error]_vars

\* C6 (part_000): a failed odds fetch leaves games as it was or empty, and
\* sets a user-visible error message.
C6_FailureSetsError ==
    [][\A s \in OSlots :
          (OddsSettles(s) /\ Failed(lastEvent'.resp)) =>
              /\ games' \in {games, << >>}
              /\ error' \notin {"", "null"}]_vars

\* What the pick record shows for game g.
Recorded(pick, g) ==
    IF pick.game # g THEN [status |-> "none", moneyline |-> "undef", spread |-> "undef"]
    ELSE [status |-> IF pick.loading THEN "pending"
                     ELSE IF pick.error THEN "failed" ELSE "ready",
          moneyline |-> pick.moneyline, spread |-> pick.spread]

\* The game of the invocation of slot t that the step starts or advances.
StepGame(t) == IF areq[t].st = "free" THEN areq'[t].game ELSE areq[t].game

\* C9 (part_000): while the analysis of a game is in flight, starting or
\* completing the analysis of a different game does not change the status or
\* the result recorded for it.
C9_OtherGameUntouched ==
    [][\A s, t \in ASlots :
          (/\ s # t
           /\ areq[s].st # "free"
           /\ areq'[s] = areq[s]
           /\ areq'[t] # areq[t]
           /\ StepGame(t) # areq[s].game) =>
              Recorded(activePick', areq[s].game) = Recorded(activePick, areq[s].game)]_vars

\* C10 (part_000): no two analyzeGame invocations of the same game are
\* outstanding at the same time.
C10_OneInvocationPerGame ==
    \A s, t \in ASlots :
        (s # t /\ areq[s].st # "free" /\ areq[t].st # "free") =>
            areq[s].game # areq[t].game

\* C2 (part_001): every trigger of the odds feed is eventually followed by an
\* odds request.
C2_TriggerLeadsToRequest == trigger ~> ~trigger

\* C3 (part_001): at most one non-aborted odds request is outstanding, and an
\* aborted request changes none of games, error and lastUpdated when it
\* settles.
C3_OneLiveRequestAbortedSilent ==
    /\ [](Cardinality({s \in OSlots : oreq[s].st = "open" /\ ~oreq[s].aborted}) <= 1)
    /\ [][\A s \in OSlots :
             (OddsSettles(s) /\ oreq[s].aborted) =>
                 /\ games' = games
                 /\ error' = error
                 /\ lastUpdated' = lastUpdated]_vars

\* An odds request was aborted by the effect cleanup and its continuation has
\* run.
C3_Witness == lastEvent.type = "odds_aborted" /\ ~inFlight /\ ~loading

\* The odds requests the step issues for the sport selected after it.
NewRequests == {s \in OSlots : /\ oreq[s].st = "free"
                               /\ oreq'[s].st = "open"
                               /\ oreq'[s].sport = sport'}

\* C4 (frontend/srcv4/App.jsx): a click on the enabled "Refresh Odds" button
\* while a session exists issues exactly one new odds request for the
\* selected sport.
C4_RefreshIssuesOneRequest ==
    [][lastEvent'.type = "refresh" => Cardinality(NewRequests) = 1]_vars

\* The step ends the analyzeGame invocation of slot s.
AnalysisEnds(s) == areq[s].st # "free" /\ areq'[s].st = "free"

\* C7 (frontend/srcv4/App.jsx): an analyzeGame invocation has sent the
\* moneyline request alone when the game has no spread, and the moneyline and
\* the spread request when it has one.
C7_SpreadOnlyWhenOffered ==
    [][\A s \in ASlots :
          AnalysisEnds(s) =>
              areq[s].issued = IF HasSpread(areq[s].home_spread)
                               THEN {"moneyline", "spread"}
                               ELSE {"moneyline"}]_vars

\* C8 (frontend/srcv4/App.jsx): when the spread request has succeeded and the
\* moneyline request then fails, the pick record of the game is not in the
\* error state, has the spread result, and has only the moneyline marked
\* failed.
C8_PartialSuccessKept ==
    [][\A s \in ASlots :
          (/\ areq[s].st = "par"
           /\ areq[s].sp = "pick"
           /\ areq[s].ml = "pending"
           /\ lastEvent'.type = "ml_settled"
           /\ lastEvent'.out = "fail"
           /\ areq'[s].st = "free") =>
              /\ activePick'.game = areq[s].game
              /\ ~activePick'.error
              /\ activePick'.spread = "pick"
              /\ activePick'.moneyline = "fail"]_vars

\* The game list gl has a card for game g.
InList(gl, g) == \E k \in DOMAIN gl : gl[k].game = g

\* C11 (part_000): an analysis that ends for a game that is no longer in the
\* game list does not update the pick record.
C11_StaleAnalysisIgnored ==
    [][\A s \in ASlots :
          (AnalysisEnds(s) /\ ~InList(games, areq[s].game)) =>
              activePick' = activePick]_vars

\* C12 (part_001): an analysis request that settles changes neither the
\* feed's error message nor its loading flag, and a step of the odds fetch
\* changes no analysis request.
C12_AnalysisApartFromFeed ==
    [][/\ lastEvent'.type = "an_settled" => (error' = error /\ loading' = loading)
       /\ oreq' # oreq => areq' = areq]_vars

\* No pick record of a game is ready or failed while an invocation of
\* analyzeGame for that game still has a request outstanding.
PendingWhileOutstanding ==
    \A s \in ASlots :
        (areq[s].st # "free" /\ activePick.game = areq[s].game) => activePick.loading

\* C13 (frontend/srcv4/App.jsx): the step that invokes analyzeGame(g) sets the
\* pick record to {game: g, pending}, and the record of g is not ready or
\* failed until g's requests have settled.
C13_PendingUntilSettled ==
    [][/\ lastEvent'.type = "analyze" =>
            \E s \in ASlots : /\ areq[s].st = "free"
                              /\ areq'[s].st # "free"
                              /\ activePick' = PickPending(areq'[s].game)
       /\ PendingWhileOutstanding']_vars

\* C14 (frontend/srcv4/App.jsx): a step that issues an odds request ends in a
\* state where authLoaded is true and session is not null; hence none is
\* issued after a sign-out or a null auth event until a session exists again.
C14_RequestsOnlyWithSession ==
    [][(\E s \in OSlots : oreq[s].st = "free" /\ oreq'[s].st = "open") =>
           (authLoaded' /\ session' # "null")]_vars

\* A session has arrived through the auth listener and the fetch-odds effect
\* has issued a request for it.
C14_Witness ==
    /\ lastEvent.type = "auth_event"
    /\ session # "null"
    /\ authPending = {}
    /\ loading
    /\ \E s \in OSlots : oreq[s].st = "open" /\ oreq[s].latest

\* C15 (part_000): loading is true exactly in the states in which an odds
\* request is outstanding.
C15_LoadingIffOutstanding ==
    loading <=> (\E s \in OSlots : oreq[s].st = "open")

\* C16 (part_001): while the inFlight lock is held, the debounce timer is
\* armed or an odds request is outstanding whose settlement releases it.
C16_LockHasOwner ==
    inFlight => (debounceTimer = "armed" \/ \E s \in OSlots : oreq[s].st = "open")

\* C17 (part_001): a successful analyzePick(game) response sets the analysis
\* of the games whose id is game.id and changes nothing else of the list:
\* its length, its order and every other game stay as they were.
C17_OnlyOwnAnalysisChanges ==
    [][\A s \in ASlots :
          (/\ AnalysisEnds(s)
           /\ lastEvent'.type = "an_settled"
           /\ lastEvent'.out # "fail") =>
              /\ Len(games') = Len(games)
              /\ \A k \in DOMAIN games :
                    /\ games'[k].id = games[k].id
                    /\ games[k].id # areq[s].game => games'[k] = games[k]
                    /\ games[k].id = areq[s].game =>
                           games'[k].analysis = lastEvent'.out]_vars

\* The analysis of the first of two listed games has arrived and the second
\* game has none.
C17_Witness ==
    /\ lastEvent.type = "an_settled"
    /\ lastEvent.out # "fail"
    /\ Len(games) = 2
    /\ games[1].analysis # "undef"
    /\ games[2].analysis = "undef"

====
